---------------------------- MODULE Spec2Model ----------------------------
(***************************************************************************)
(* Model of the event-inventory web application                            *)
(* (src/inventory_app/app.py): the configuration bootstrap, the HTTPS      *)
(* policy, the login gate and the item / production / assignment handlers  *)
(* over the MariaDB schema created by init_db.                             *)
(*                                                                         *)
(* Text is a sequence of one-character strings, so that strip(), the       *)
(* length validators and int() are computed as the code computes them.     *)
(* Every request handler is one action; its response is left in resp.      *)
(***************************************************************************)
EXTENDS Integers, Sequences, FiniteSets, TLC

\* ------------------------------------------------------------------ bounds
\* Cap on the AUTO_INCREMENT counter of the productions table.
MaxPid == 2

\* The most rows a report fetches: enough for three pages.
MaxRows == 90

\* The lengths of the item names of a report after their first two
\* characters: a short name, the name whose line has exactly the most
\* characters a line keeps, and one more.
NameShort == 1

NameFit == 100

NameOver == 101

\* ------------------------------------------------------- program constants
\* SetupForm.db_port default: the port the database server listens on.
DbServerPort == 3306
\* Length(min=3, max=128) of admin_username / default_user_username.
UsernameMin == 3
UsernameMax == 128
\* Length(min=6) of admin_password / default_user_password.
PasswordMin == 6
\* Length(min=1, max=64) of ItemForm.inventory_id.
InventoryIdMax == 64
\* Length(min=1, max=255) of ItemForm.name and ProductionForm.name.
NameMax == 255
\* Length(max=128) of ItemForm.category (serial_number, manufacturer, model).
CategoryMax == 128

\* The canvas of the reports, in mm: the height of A4, the margins, the
\* steps between lines, and the most characters of a line.
A4Height == 297

TopMargin == 20

BottomMargin == 20

TitleStep == 10

LineStep == 6

LineMax == 120

BomTitleStep == 8

BomDateStep == 6

BomNotesStep == 8

\* ------------------------------------------------------------------- text
\* None where the value is otherwise a string.
None == "None"

\* None / SQL NULL where the value is otherwise a text (no text has a
\* character of more than one letter).
NULL == <<"NULL">>

\* The decimal digits and their values.
Digits ==
    [c \in {"0", "1", "2", "3", "4", "5", "6", "7", "8", "9"} |->
        CASE c = "0" -> 0 [] c = "1" -> 1 [] c = "2" -> 2 [] c = "3" -> 3
          [] c = "4" -> 4 [] c = "5" -> 5 [] c = "6" -> 6 [] c = "7" -> 7
          [] c = "8" -> 8 [] c = "9" -> 9]

RECURSIVE lstrip(_)
lstrip(s) == IF s # <<>> /\ Head(s) = " " THEN lstrip(Tail(s)) ELSE s

RECURSIVE rstrip(_)
rstrip(s) ==
    IF s # <<>> /\ s[Len(s)] = " " THEN rstrip(SubSeq(s, 1, Len(s) - 1)) ELSE s

\* str.strip()
strip(s) == rstrip(lstrip(s))

\* `x.strip() if x else None`
strip_or_none(s) == IF s # <<>> THEN strip(s) ELSE NULL

IsDigit(c) == c \in DOMAIN Digits

DigitValue(c) == Digits[c]

RECURSIVE DecimalValue(_)
DecimalValue(s) ==
    IF s = <<>> THEN 0
    ELSE 10 * DecimalValue(SubSeq(s, 1, Len(s) - 1)) + DigitValue(s[Len(s)])

\* int(text) raises ValueError unless the text is a decimal numeral.
ValueError(s) ==
    LET t == strip(s) IN ~(t # <<>> /\ \A k \in 1..Len(t) : IsDigit(t[k]))

\* int(text) of a numeral.
int(s) == DecimalValue(strip(s))

\* wtforms DataRequired: the data is there and is not only whitespace.
DataRequired(s) == strip(s) # <<>>

\* wtforms Length(min, max) (max = -1: no upper limit).
Length(s, min, max) == Len(s) >= min /\ (max = -1 \/ Len(s) <= max)

\* wtforms Optional(): an empty or whitespace-only field ends the chain
\* successfully, otherwise the validators that follow decide.
Optional(s, rest) == IF strip(s) = <<>> THEN TRUE ELSE rest

\* A text of n characters.
Filler(n) == [k \in 1..n |-> "x"]


\* ------------------------------------------------------------------ state
VARIABLES
    config,            \* what load_config() returns: the content of config.json
    uploads,           \* names of the files in UPLOAD_DIR
    qr_codes,          \* the label files static/qr_codes/<inventory_id>.png:
                       \* the QR payload of each, by inventory_id
    tables,            \* tables that exist in the database
    users,             \* rows of table users
    items,             \* rows of table items, by inventory_id (PRIMARY KEY)
    productions,       \* rows of table productions, by id (PRIMARY KEY)
    next_pid,          \* AUTO_INCREMENT counter of table productions
    production_items,  \* table production_items: how many rows each
                       \* <<production_id, inventory_id>> has
    resp,              \* the response to the last request
    report,            \* the PDF report being built: the fetched rows and
                       \* the canvas (the body of the response)
    inflight           \* the setup requests handled at the same time, each
                       \* with its form, its position in setup() and the
                       \* rows its transaction has not committed

database == <<tables, users, items, productions, next_pid, production_items>>

vars == <<config, uploads, qr_codes, report, inflight, tables, users, items, productions, next_pid,
          production_items, resp>>

\* The tables in the order init_db creates them.
SchemaTables == <<"users", "items", "productions", "production_items">>

AllTables == {SchemaTables[k] : k \in 1..Len(SchemaTables)}

\* What enforce_https reads of a request: request.is_secure, the
\* X-Forwarded-Proto header ("" when absent), request.remote_addr (the
\* numbers of the dotted or colon-separated address, <<>> when there is
\* none) and request.url (scheme and the rest).
NoReq == [is_secure |-> FALSE, forwarded_proto |-> <<>>, remote_addr |-> <<>>,
          scheme |-> None, rest |-> None]

\* No <int:pid> / no <inventory_id> in the URL.
NoPid == 0

NoCode == <<>>

\* The URL argument of a view: a production id or an inventory code.
NoArg == [pid |-> NoPid, code |-> NoCode]

PidArg(pid) == [pid |-> pid, code |-> NoCode]

CodeArg(code) == [pid |-> NoPid, code |-> code]

\* A response: the view that answered, the URL argument it was called with,
\* the HTTP status, the redirect target, the flashed message and what became
\* of the request's database connection ("none": not opened, "closed",
\* "open": left open when the request ended).
Respond(route, arg, status, location, flash, conn) ==
    resp' = [route |-> route, pid |-> arg.pid, code |-> arg.code,
             status |-> status, location |-> location, flash |-> flash,
             conn |-> conn, req |-> NoReq]

\* render_template(...): a page, status 200.
Render(route, arg, flash, conn) == Respond(route, arg, 200, None, flash, conn)

\* redirect(url_for(target)).
Redirect(route, arg, target, flash, conn) ==
    Respond(route, arg, 302, target, flash, conn)

\* abort(404).
NotFound(route, arg, conn) == Respond(route, arg, 404, None, None, conn)

\* An exception no handler catches: the request ends in a server error.
Crash(route, arg, conn) == Respond(route, arg, 500, None, None, conn)

\* ---------------------------------------------------------- configuration
\* load_config() when config.json does not exist.
Unconfigured == [configured |-> FALSE, db |-> None, db_port |-> NULL,
                 logo_path |-> None]

load_config == config

\* save_config(cfg): config.json is overwritten.
save_config(cfg) == config' = cfg

\* mariadb.connect(...): the server accepts the credentials on its port and
\* is reachable (up).
connect(db, port, up) == up /\ db = "good" /\ port = DbServerPort

\* get_db() of a configured instance: TRUE when the connection is made,
\* FALSE when mariadb.connect raises.
get_db(up) == connect(load_config.db, int(load_config.db_port), up)

\* init_db(): CREATE TABLE IF NOT EXISTS for the four tables in order; the
\* statements after the first `created` ones are not reached when one fails.
init_db(created) == tables' = tables \cup {SchemaTables[k] : k \in 1..created}

\* ------------------------------------------------------------- first run
generate_password_hash(password) == <<"hash", password>>

check_password_hash(hash, password) == hash = <<"hash", password>>

LogoExtensions == {".png", ".jpg", ".jpeg"}

NoFile == "NoFile"

logo_file(ext) == "company_logo" \o ext

\* SetupForm.validate_on_submit().
SetupForm_validate(method, form) ==
    /\ method = "POST"
    /\ DataRequired(form.db_port)
    /\ DataRequired(form.admin_username)
    /\ Length(form.admin_username, UsernameMin, UsernameMax)
    /\ DataRequired(form.admin_password)
    /\ Length(form.admin_password, PasswordMin, -1)
    /\ Optional(form.default_user_username,
                Length(form.default_user_username, UsernameMin, UsernameMax))
    /\ Optional(form.default_user_password,
                Length(form.default_user_password, PasswordMin, -1))

\* The INSERTs of setup on the users table `present`: the admin unless a user
\* of that name exists, then the optional default user the same way.
provision(present, form) ==
    LET admin == IF \E u \in present : u.username = form.admin_username
                 THEN {}
                 ELSE {[id |-> Cardinality(present) + 1,
                        username |-> form.admin_username,
                        password_hash |-> generate_password_hash(form.admin_password),
                        is_admin |-> TRUE]}
        withAdmin == present \cup admin
        other == IF /\ form.default_user_username # <<>>
                    /\ form.default_user_password # <<>>
                    /\ ~ \E u \in withAdmin : u.username = form.default_user_username
                 THEN {[id |-> Cardinality(withAdmin) + 1,
                        username |-> form.default_user_username,
                        password_hash |-> generate_password_hash(form.default_user_password),
                        is_admin |-> FALSE]}
                 ELSE {}
    IN  withAdmin \cup other

\* The part of setup after the connection test: save_config, init_db, the
\* accounts.  fail.at names the database call that raises ("none": none does);
\* nothing catches it, so the request crashes with what was done so far.
setup_initialize(form, new_cfg, fail) ==
    /\ save_config(new_cfg)
    /\ IF fail.at = "init_db"
       THEN /\ init_db(fail.created)
            /\ users' = users
            /\ Crash("setup", NoArg, IF fail.created = 0 THEN "none" ELSE "open")
       ELSE /\ init_db(Len(SchemaTables))
            /\ IF fail.at = "provision"
               THEN \* the INSERTs were not committed
                    /\ users' = users
                    /\ Crash("setup", NoArg, "open")
               ELSE /\ users' = provision(users, form)
                    /\ Redirect("setup", NoArg, "login",
                                "Setup complete. Please log in.", "closed")
    /\ UNCHANGED <<items, productions, next_pid, production_items>>

\* A setup that has written config.json before it tests the connection.
setup_connection_failed_configured ==
    /\ Render("setup", NoArg, "Database connection failed", "none")
    /\ save_config([load_config EXCEPT !.configured = TRUE])
    /\ UNCHANGED database

\* `except mariadb.Error` around the connection test of setup: the message,
\* the form again.
setup_connection_failed ==
    /\ Render("setup", NoArg, "Database connection failed", "none")
    /\ UNCHANGED <<config, database>>

\* setup() past its `configured` check: the form, the logo, the connection
\* test, the initialization.
setup_form(method, form, fail) ==
    LET saved == form.company_logo # NoFile /\ form.company_logo \in LogoExtensions
        logo_path == IF saved THEN logo_file(form.company_logo) ELSE None
        new_cfg == [configured |-> TRUE, db |-> form.db,
                    db_port |-> strip(form.db_port), logo_path |-> logo_path]
    IN
    IF ~SetupForm_validate(method, form)
    THEN /\ Render("setup", NoArg, None, "none")
         /\ UNCHANGED <<config, uploads, qr_codes, report, inflight, database>>
    ELSE IF form.company_logo # NoFile /\ form.company_logo \notin LogoExtensions
    THEN /\ Render("setup", NoArg, "Logo must be PNG or JPEG.", "none")
         /\ UNCHANGED <<config, uploads, qr_codes, report, inflight, database>>
    ELSE /\ uploads' = IF saved THEN uploads \cup {logo_path} ELSE uploads
         /\ UNCHANGED <<qr_codes, report, inflight>>
         /\ IF ValueError(new_cfg.db_port)
            THEN /\ Crash("setup", NoArg, "none")
                 /\ UNCHANGED <<config, database>>
            ELSE IF ~connect(new_cfg.db, int(new_cfg.db_port), fail.at # "test")
            THEN setup_connection_failed
            ELSE setup_initialize(form, new_cfg, fail)

\* A setup without its `configured` check.
setup_unguarded(method, form, fail) == setup_form(method, form, fail)

\* GET/POST /setup.
setup(method, form, fail) ==
    IF load_config.configured
    THEN /\ Redirect("setup", NoArg, "index", None, "none")
         /\ UNCHANGED <<config, uploads, qr_codes, report, inflight, database>>
    ELSE setup_form(method, form, fail)

\* python app.py: `if configured: init_db()` before the server starts; the
\* first `created` CREATE TABLE statements run (all four unless one raises).
startup(created) ==
    /\ load_config.configured
    /\ init_db(created)
    /\ Respond("startup", NoArg, 0, None, None, "none")
    /\ UNCHANGED <<config, uploads, qr_codes, report, inflight, users, items, productions, next_pid,
                   production_items>>


\* ----------------------------------------------------------- HTTPS policy
UpperCase == <<"H", "T", "P", "S">>

LowerCase == <<"h", "t", "p", "s">>

\* str.lower()
lower(s) ==
    [k \in 1..Len(s) |->
        IF \E u \in 1..Len(UpperCase) : UpperCase[u] = s[k]
        THEN LowerCase[CHOOSE u \in 1..Len(UpperCase) : UpperCase[u] = s[k]]
        ELSE s[k]]

\* LAN_REGEX.match(remote_ip):
\* ^(127\.0\.0\.1|10\.\d+\.\d+\.\d+|192\.168\.\d+\.\d+|172\.(1[6-9]|2[0-9]|3[0-1])\.\d+\.\d+)$
LAN_REGEX_match(remote_ip) ==
    /\ Len(remote_ip) = 4
    /\ \/ remote_ip = <<127, 0, 0, 1>>
       \/ remote_ip[1] = 10
       \/ remote_ip[1] = 192 /\ remote_ip[2] = 168
       \/ remote_ip[1] = 172 /\ remote_ip[2] \in 16..31

\* request.url.replace("http://", "https://", 1)
https_url(req) ==
    [scheme |-> IF req.scheme = "http" THEN "https" ELSE req.scheme,
     rest |-> req.rest]

\* enforce_https(): TRUE when it answers the request with the redirect.
enforce_https(req) ==
    LET cfg == load_config
        forwarded_proto == lower(req.forwarded_proto)
        is_secure == req.is_secure \/ forwarded_proto = <<"h", "t", "t", "p", "s">>
    IN  IF ~cfg.configured THEN FALSE
        ELSE ~is_secure /\ ~LAN_REGEX_match(req.remote_addr)

\* The before_request hook on a request: the 301 to the https URL, or
\* nothing (status 0), and the request goes on to its view.
before_request(req) ==
    /\ resp' = [route |-> "enforce_https", pid |-> NoPid, code |-> NoCode,
                status |-> IF enforce_https(req) THEN 301 ELSE 0,
                location |-> IF enforce_https(req)
                             THEN https_url(req).scheme \o "://" \o https_url(req).rest
                             ELSE None,
                flash |-> None, conn |-> "none", req |-> req]
    /\ UNCHANGED <<config, uploads, qr_codes, report, inflight, database>>

\* ------------------------------------------------------------- login gate
NoSession == 0

\* find_user_by_id(user_id), for a row of users or None.
find_user_by_id(user_id) ==
    IF \E u \in users : u.id = user_id
    THEN {u \in users : u.id = user_id}
    ELSE {}

\* current_user of a request whose session names user `sess`: "crash" when
\* load_user's query raises, "anonymous", "user" or "admin".
current_user(sess, outage) ==
    IF sess = NoSession \/ ~load_config.configured THEN "anonymous"
    ELSE IF ~get_db(outage # "load_user") \/ "users" \notin tables THEN "crash"
    ELSE IF find_user_by_id(sess) = {} THEN "anonymous"
    ELSE IF \E u \in find_user_by_id(sess) : u.is_admin THEN "admin"
    ELSE "user"

\* @login_required around `view`.
login_required(route, arg, sess, outage, view) ==
    LET user == current_user(sess, outage) IN
    IF user = "crash"
    THEN Crash(route, arg, "none") /\ UNCHANGED <<config, uploads, qr_codes, report, inflight, database>>
    ELSE IF user = "anonymous"
    THEN /\ Redirect(route, arg, "login", "Please log in to access this page.", "none")
         /\ UNCHANGED <<config, uploads, qr_codes, report, inflight, database>>
    ELSE view

\* @admin_required around `view`.
admin_required(route, arg, sess, outage, view) ==
    IF current_user(sess, outage) # "admin"
    THEN /\ Redirect(route, arg, "index", "Admin access required.", "none")
         /\ UNCHANGED <<config, uploads, qr_codes, report, inflight, database>>
    ELSE view

\* GET/POST /login.
login(method, form, outage) ==
    /\ UNCHANGED <<config, uploads, qr_codes, report, inflight, database>>
    /\ IF ~load_config.configured
       THEN Redirect("login", NoArg, "setup", None, "none")
       ELSE IF ~(method = "POST" /\ DataRequired(form.username)
                                /\ DataRequired(form.password))
       THEN Render("login", NoArg, None, "none")
       ELSE IF ~get_db(outage # "view")
       THEN Crash("login", NoArg, "none")
       ELSE IF "users" \notin tables
       THEN Crash("login", NoArg, "open")
       ELSE IF \E u \in users : /\ u.username = strip(form.username)
                                /\ check_password_hash(u.password_hash, form.password)
       THEN Redirect("login", NoArg, "index", None, "closed")
       ELSE Render("login", NoArg, "Invalid credentials", "closed")

\* GET /logout.
logout(sess, outage) ==
    login_required("logout", NoArg, sess, outage,
        /\ Redirect("logout", NoArg, "login", None, "none")
        /\ UNCHANGED <<config, uploads, qr_codes, report, inflight, database>>)

\* GET /.
index(sess, outage) ==
    login_required("index", NoArg, sess, outage,
        /\ Render("index", NoArg, None, "none")
        /\ UNCHANGED <<config, uploads, qr_codes, report, inflight, database>>)

\* GET /uploads/<path:filename>: send_from_directory('uploads', filename).
uploads_view(filename) ==
    /\ IF filename \in uploads
       THEN Respond("uploads", NoArg, 200, None, None, "none")
       ELSE NotFound("uploads", NoArg, "none")
    /\ UNCHANGED <<config, uploads, qr_codes, report, inflight, database>>

\* GET/POST /admin/settings.
admin_settings(sess, outage, method, file) ==
    login_required("admin_settings", NoArg, sess, outage,
      admin_required("admin_settings", NoArg, sess, outage,
        /\ UNCHANGED database
        /\ IF method = "POST" /\ file # NoFile
           THEN IF file \notin LogoExtensions
                THEN /\ Redirect("admin_settings", NoArg, "admin_settings",
                                 "Logo must be PNG or JPEG.", "none")
                     /\ UNCHANGED <<config, uploads, qr_codes, report, inflight>>
                ELSE /\ uploads' = uploads \cup {logo_file(file)}
                     /\ UNCHANGED <<qr_codes, report, inflight>>
                     /\ save_config([load_config EXCEPT !.logo_path = logo_file(file)])
                     /\ Render("admin_settings", NoArg, "Logo updated.", "none")
           ELSE /\ Render("admin_settings", NoArg, None, "none")
                /\ UNCHANGED <<config, uploads, qr_codes, report, inflight>>))


\* ------------------------------------------------------------ persistence
\* A statement on the tables `needed` raises mariadb.Error: the connection
\* is lost while it runs (lost), or a table does not exist.
raises(lost, needed) == lost \/ ~(needed \subseteq tables)

\* flash(f"Error: {ex}", "danger") for each of the errors.
ErrorLost == "Error: Lost connection to server"

ErrorNoTable == "Error: Table doesn't exist"

ErrorDuplicate == "Error: Duplicate entry for key 'PRIMARY'"

error_flash(needed) == IF needed \subseteq tables THEN ErrorLost ELSE ErrorNoTable

\* The table without rows.
NoRows == [r \in {} |-> 0]

\* A table items without its PRIMARY KEY: the INSERT replaces the row.
items_duplicate_unchecked(inventory_id) == FALSE

\* INSERT INTO items ...: the duplicate-key error of the PRIMARY KEY.
items_duplicate(inventory_id) == inventory_id \in DOMAIN items

insert_item(inventory_id, row) ==
    [c \in DOMAIN items \cup {inventory_id} |->
        IF c = inventory_id THEN row ELSE items[c]]

\* UPDATE items SET ... WHERE inventory_id=%s
update_item(inventory_id, row) ==
    [c \in DOMAIN items |-> IF c = inventory_id THEN row ELSE items[c]]

\* DELETE FROM items WHERE inventory_id=%s
delete_item(inventory_id) ==
    [c \in DOMAIN items \ {inventory_id} |-> items[c]]

\* FOREIGN KEY (inventory_id) REFERENCES items(inventory_id) ON DELETE CASCADE
cascade_item(inventory_id) ==
    [r \in {q \in DOMAIN production_items : q[2] # inventory_id} |->
        production_items[r]]

\* INSERT INTO productions ...: the row gets the AUTO_INCREMENT id.
insert_production(row) ==
    [p \in DOMAIN productions \cup {next_pid} |->
        IF p = next_pid THEN row ELSE productions[p]]

\* UPDATE productions SET ... WHERE id=%s
update_production(pid, row) ==
    [p \in DOMAIN productions |-> IF p = pid THEN row ELSE productions[p]]

\* DELETE FROM productions WHERE id=%s
delete_production(pid) == [p \in DOMAIN productions \ {pid} |-> productions[p]]

\* A FOREIGN KEY (production_id) without ON DELETE CASCADE.
cascade_production_none(pid) == production_items

\* FOREIGN KEY (production_id) REFERENCES productions(id) ON DELETE CASCADE
cascade_production(pid) ==
    [r \in {q \in DOMAIN production_items : q[1] # pid} |-> production_items[r]]

\* A table production_items without its PRIMARY KEY.
assignment_duplicate_unchecked(pid, inventory_id) == FALSE

\* PRIMARY KEY (production_id, inventory_id): the pair is already a row.
assignment_duplicate(pid, inventory_id) ==
    <<pid, inventory_id>> \in DOMAIN production_items

\* A table production_items without its FOREIGN KEYs.
assignment_orphan_unchecked(pid, inventory_id) == FALSE

\* The FOREIGN KEYs of production_items: a parent row is missing.
assignment_orphan(pid, inventory_id) ==
    pid \notin DOMAIN productions \/ inventory_id \notin DOMAIN items

\* The table with one more row <<pid, inventory_id>>.
insert_assignment(pid, inventory_id) ==
    [r \in DOMAIN production_items \cup {<<pid, inventory_id>>} |->
        IF r # <<pid, inventory_id>> THEN production_items[r]
        ELSE IF r \in DOMAIN production_items THEN production_items[r] + 1
        ELSE 1]

\* INSERT IGNORE INTO production_items: a duplicate of the PRIMARY KEY and a
\* FOREIGN KEY without its parent row are ignored (a warning), the row is not
\* inserted.
insert_ignore_assignment(pid, inventory_id) ==
    IF assignment_duplicate(pid, inventory_id) \/ assignment_orphan(pid, inventory_id)
    THEN production_items
    ELSE insert_assignment(pid, inventory_id)

\* DELETE FROM production_items WHERE production_id=%s AND inventory_id=%s
delete_assignment(pid, inventory_id) ==
    [r \in DOMAIN production_items \ {<<pid, inventory_id>>} |-> production_items[r]]

\* ------------------------------------------------------------------ items
\* ItemForm.validate_on_submit().  Of the optional columns (category,
\* serial_number, manufacturer, model: the same validators, the same
\* `strip() if x else None`) the model keeps category.
ItemForm_validate(method, form) ==
    /\ method = "POST"
    /\ DataRequired(form.inventory_id)
    /\ Length(form.inventory_id, 1, InventoryIdMax)
    /\ DataRequired(form.name)
    /\ Length(form.name, 1, NameMax)
    /\ Optional(form.category, Length(form.category, -1, CategoryMax))

item_row(form) ==
    [name |-> strip(form.name), category |-> strip_or_none(form.category)]

\* GET /items.
items_view(sess, outage) ==
    login_required("items", NoArg, sess, outage,
        /\ UNCHANGED <<config, uploads, qr_codes, report, inflight, database>>
        /\ IF ~get_db(outage # "view") THEN Crash("items", NoArg, "none")
           ELSE IF raises(outage = "select", {"items"})
           THEN Crash("items", NoArg, "open")
           ELSE Render("items", NoArg, None, "closed"))

\* GET/POST /items/new.
items_new(sess, outage, method, form) ==
    login_required("items_new", NoArg, sess, outage,
        /\ UNCHANGED <<config, uploads, qr_codes, report, inflight, tables, users, productions, next_pid,
                       production_items>>
        /\ IF ~ItemForm_validate(method, form)
           THEN Render("items_new", NoArg, None, "none") /\ items' = items
           ELSE IF ~get_db(outage # "view")
           THEN Crash("items_new", NoArg, "none") /\ items' = items
           ELSE IF raises(outage = "execute", {"items"})
           THEN \* except mariadb.Error: rollback, flash
                /\ Render("items_new", CodeArg(strip(form.inventory_id)),
                          error_flash({"items"}), "closed")
                /\ items' = items
           ELSE IF items_duplicate(strip(form.inventory_id))
           THEN /\ Render("items_new", CodeArg(strip(form.inventory_id)),
                          ErrorDuplicate, "closed")
                /\ items' = items
           ELSE /\ items' = insert_item(strip(form.inventory_id), item_row(form))
                /\ Redirect("items_new", CodeArg(strip(form.inventory_id)), "items",
                            "Item created.", "closed"))

\* qr_data_text of items_edit: the payload of the label, from the id of the
\* URL and the stripped fields of the form ('' for an empty optional field).
qr_data_text(inventory_id, form) ==
    [id |-> inventory_id, name |-> strip(form.name),
     category |-> IF form.category # <<>> THEN strip(form.category) ELSE <<>>]

\* GET/POST /items/<inventory_id>/edit.  After the commit the view builds
\* the label with Path(...), a name the module never imports: NameError.
items_edit(sess, outage, inventory_id, method, form) ==
    login_required("items_edit", CodeArg(inventory_id), sess, outage,
        /\ UNCHANGED <<config, uploads, qr_codes, report, inflight, tables, users, productions, next_pid,
                       production_items>>
        /\ IF ~get_db(outage # "view")
           THEN Crash("items_edit", CodeArg(inventory_id), "none") /\ items' = items
           ELSE IF raises(outage = "select", {"items"})
           THEN Crash("items_edit", CodeArg(inventory_id), "open") /\ items' = items
           ELSE IF inventory_id \notin DOMAIN items
           THEN NotFound("items_edit", CodeArg(inventory_id), "closed") /\ items' = items
           ELSE IF ~ItemForm_validate(method, form)
           THEN Render("items_edit", CodeArg(inventory_id), None, "closed")
                /\ items' = items
           ELSE IF raises(outage = "execute", {"items"})
           THEN /\ Render("items_edit", CodeArg(inventory_id),
                          error_flash({"items"}), "closed")
                /\ items' = items
           ELSE \* the UPDATE is committed; generate_qr_with_logo returns the
                \* image; Path(...) raises NameError before mkdir and
                \* img.save, so no label file is written
                /\ items' = update_item(inventory_id, item_row(form))
                /\ Crash("items_edit", CodeArg(inventory_id), "open"))

\* POST /items/<inventory_id>/delete.
items_delete(sess, outage, inventory_id) ==
    login_required("items_delete", CodeArg(inventory_id), sess, outage,
        /\ UNCHANGED <<config, uploads, qr_codes, report, inflight, tables, users, productions, next_pid>>
        /\ IF ~get_db(outage # "view")
           THEN /\ Crash("items_delete", CodeArg(inventory_id), "none")
                /\ UNCHANGED <<items, production_items>>
           ELSE IF raises(outage = "execute", {"items"})
           THEN /\ Redirect("items_delete", CodeArg(inventory_id), "items",
                            error_flash({"items"}), "closed")
                /\ UNCHANGED <<items, production_items>>
           ELSE /\ items' = delete_item(inventory_id)
                /\ production_items' = cascade_item(inventory_id)
                /\ Redirect("items_delete", CodeArg(inventory_id), "items",
                            "Item deleted.", "closed"))

\* GET /labels/<inventory_id>.png.
label_png(sess, outage, inventory_id) ==
    login_required("label_png", CodeArg(inventory_id), sess, outage,
        /\ UNCHANGED <<config, uploads, qr_codes, report, inflight, database>>
        /\ IF ~get_db(outage # "view")
           THEN Crash("label_png", CodeArg(inventory_id), "none")
           ELSE IF raises(outage = "select", {"items"})
           THEN Crash("label_png", CodeArg(inventory_id), "open")
           ELSE IF inventory_id \notin DOMAIN items
           THEN NotFound("label_png", CodeArg(inventory_id), "closed")
           ELSE Respond("label_png", CodeArg(inventory_id), 200, None, None, "closed"))

\* GET /reports/items.pdf.
report_items_pdf(sess, outage) ==
    login_required("report_items_pdf", NoArg, sess, outage,
        /\ UNCHANGED <<config, uploads, qr_codes, report, inflight, database>>
        /\ IF ~get_db(outage # "view")
           THEN Crash("report_items_pdf", NoArg, "none")
           ELSE IF raises(outage = "select", {"items"})
           THEN Crash("report_items_pdf", NoArg, "open")
           ELSE Respond("report_items_pdf", NoArg, 200, None, None, "closed"))


\* ------------------------------------------------------------ productions
\* datetime.strptime(text, "%Y-%m-%d") raises ValueError unless the text is
\* a date: three numerals joined by "-", a year of four digits, a month and
\* a day of the calendar.
RECURSIVE split(_, _)
split(s, sep) ==
    IF \A k \in 1..Len(s) : s[k] # sep THEN <<s>>
    ELSE LET k == CHOOSE j \in 1..Len(s) :
                      s[j] = sep /\ \A h \in 1..(j - 1) : s[h] # sep
         IN  <<SubSeq(s, 1, k - 1)>> \o split(SubSeq(s, k + 1, Len(s)), sep)

days_in_month(year, month) ==
    IF month = 2
    THEN IF year % 4 = 0 /\ (year % 100 # 0 \/ year % 400 = 0) THEN 29 ELSE 28
    ELSE IF month \in {4, 6, 9, 11} THEN 30 ELSE 31

numeral(s) == s # <<>> /\ \A k \in 1..Len(s) : IsDigit(s[k])

strptime_ValueError(text) ==
    LET parts == split(text, "-") IN
    ~ /\ Len(parts) = 3
      /\ \A k \in 1..3 : numeral(parts[k])
      /\ Len(parts[1]) = 4 /\ Len(parts[2]) <= 2 /\ Len(parts[3]) <= 2
      /\ DecimalValue(parts[1]) >= 1
      /\ DecimalValue(parts[2]) \in 1..12
      /\ DecimalValue(parts[3]) \in
             1..days_in_month(DecimalValue(parts[1]), DecimalValue(parts[2]))

\* datetime.strptime(text, "%Y-%m-%d").date()
strptime(text) ==
    LET parts == split(text, "-") IN
    <<DecimalValue(parts[1]), DecimalValue(parts[2]), DecimalValue(parts[3])>>

\* ProductionForm.validate_on_submit().
ProductionForm_validate(method, form) ==
    /\ method = "POST"
    /\ DataRequired(form.name)
    /\ Length(form.name, 1, NameMax)

\* date_val: None without a date.
date_val(form) == IF form.date # <<>> THEN strptime(form.date) ELSE <<>>

production_row(form) == [name |-> strip(form.name), date |-> date_val(form)]

\* GET /productions.
productions_view_all(sess, outage) ==
    login_required("productions", NoArg, sess, outage,
        /\ UNCHANGED <<config, uploads, qr_codes, report, inflight, database>>
        /\ IF ~get_db(outage # "view") THEN Crash("productions", NoArg, "none")
           ELSE IF raises(outage = "select", {"productions"})
           THEN Crash("productions", NoArg, "open")
           ELSE Render("productions", NoArg, None, "closed"))

\* GET/POST /productions/new.
productions_new(sess, outage, method, form) ==
    login_required("productions_new", NoArg, sess, outage,
        /\ UNCHANGED <<config, uploads, qr_codes, report, inflight, tables, users, items, production_items>>
        /\ IF ~ProductionForm_validate(method, form)
           THEN /\ Render("productions_new", NoArg, None, "none")
                /\ UNCHANGED <<productions, next_pid>>
           ELSE IF form.date # <<>> /\ strptime_ValueError(form.date)
           THEN /\ Render("productions_new", NoArg,
                          "Invalid date format, use YYYY-MM-DD", "none")
                /\ UNCHANGED <<productions, next_pid>>
           ELSE IF ~get_db(outage # "view")
           THEN /\ Crash("productions_new", NoArg, "none")
                /\ UNCHANGED <<productions, next_pid>>
           ELSE IF raises(outage = "execute", {"productions"})
           THEN /\ Render("productions_new", NoArg, error_flash({"productions"}),
                          "closed")
                /\ UNCHANGED <<productions, next_pid>>
           ELSE /\ next_pid <= MaxPid
                /\ productions' = insert_production(production_row(form))
                /\ next_pid' = next_pid + 1
                /\ Redirect("productions_new", PidArg(next_pid), "productions",
                            "Production created.", "closed"))

\* GET/POST /productions/<int:pid>/edit.  The early return on a bad date and
\* the return after the commit leave the function before conn.close().
productions_edit(sess, outage, pid, method, form) ==
    login_required("productions_edit", PidArg(pid), sess, outage,
        /\ UNCHANGED <<config, uploads, qr_codes, report, inflight, tables, users, items, next_pid,
                       production_items>>
        /\ IF ~get_db(outage # "view")
           THEN /\ Crash("productions_edit", PidArg(pid), "none")
                /\ productions' = productions
           ELSE IF raises(outage = "select", {"productions"})
           THEN /\ Crash("productions_edit", PidArg(pid), "open")
                /\ productions' = productions
           ELSE IF pid \notin DOMAIN productions
           THEN /\ NotFound("productions_edit", PidArg(pid), "closed")
                /\ productions' = productions
           ELSE IF ~ProductionForm_validate(method, form)
           THEN /\ Render("productions_edit", PidArg(pid), None, "closed")
                /\ productions' = productions
           ELSE IF form.date # <<>> /\ strptime_ValueError(form.date)
           THEN /\ Render("productions_edit", PidArg(pid),
                          "Invalid date format, use YYYY-MM-DD", "open")
                /\ productions' = productions
           ELSE IF raises(outage = "execute", {"productions"})
           THEN /\ Render("productions_edit", PidArg(pid),
                          error_flash({"productions"}), "closed")
                /\ productions' = productions
           ELSE /\ productions' = update_production(pid, production_row(form))
                /\ Redirect("productions_edit", PidArg(pid), "productions",
                            "Production updated.", "open"))

\* POST /productions/<int:pid>/delete.
productions_delete(sess, outage, pid) ==
    login_required("productions_delete", PidArg(pid), sess, outage,
        /\ UNCHANGED <<config, uploads, qr_codes, report, inflight, tables, users, items, next_pid>>
        /\ IF ~get_db(outage # "view")
           THEN /\ Crash("productions_delete", PidArg(pid), "none")
                /\ UNCHANGED <<productions, production_items>>
           ELSE IF raises(outage = "execute", {"productions"})
           THEN /\ Redirect("productions_delete", PidArg(pid), "productions",
                            error_flash({"productions"}), "closed")
                /\ UNCHANGED <<productions, production_items>>
           ELSE /\ productions' = delete_production(pid)
                /\ production_items' = cascade_production(pid)
                /\ Redirect("productions_delete", PidArg(pid), "productions",
                            "Production deleted.", "closed"))

\* GET /productions/<int:pid>.
productions_view(sess, outage, pid) ==
    login_required("productions_view", PidArg(pid), sess, outage,
        /\ UNCHANGED <<config, uploads, qr_codes, report, inflight, database>>
        /\ IF ~get_db(outage # "view")
           THEN Crash("productions_view", PidArg(pid), "none")
           ELSE IF raises(outage = "select", {"productions"})
           THEN Crash("productions_view", PidArg(pid), "open")
           ELSE IF pid \notin DOMAIN productions
           THEN NotFound("productions_view", PidArg(pid), "closed")
           ELSE IF raises(FALSE, {"production_items", "items"})
           THEN Crash("productions_view", PidArg(pid), "open")
           ELSE Render("productions_view", PidArg(pid), None, "closed"))

\* POST /productions/<int:pid>/assign.
productions_assign(sess, outage, pid, inventory_id) ==
    login_required("productions_assign", PidArg(pid), sess, outage,
        /\ UNCHANGED <<config, uploads, qr_codes, report, inflight, tables, users, items, productions, next_pid>>
        /\ IF strip(inventory_id) = <<>>
           THEN /\ Redirect("productions_assign", PidArg(pid), "productions_view",
                            "Select an item.", "none")
                /\ production_items' = production_items
           ELSE IF ~get_db(outage # "view")
           THEN /\ Crash("productions_assign", [pid |-> pid, code |-> strip(inventory_id)],
                         "none")
                /\ production_items' = production_items
           ELSE IF raises(outage = "execute", {"production_items"})
           THEN /\ Redirect("productions_assign",
                            [pid |-> pid, code |-> strip(inventory_id)],
                            "productions_view", error_flash({"production_items"}),
                            "closed")
                /\ production_items' = production_items
           ELSE /\ production_items' = insert_ignore_assignment(pid, strip(inventory_id))
                /\ Redirect("productions_assign",
                            [pid |-> pid, code |-> strip(inventory_id)],
                            "productions_view", "Item assigned.", "closed"))

\* POST /productions/<int:pid>/remove.
productions_remove(sess, outage, pid, inventory_id) ==
    login_required("productions_remove", PidArg(pid), sess, outage,
        /\ UNCHANGED <<config, uploads, qr_codes, report, inflight, tables, users, items, productions, next_pid>>
        /\ IF ~get_db(outage # "view")
           THEN /\ Crash("productions_remove", [pid |-> pid, code |-> strip(inventory_id)],
                         "none")
                /\ production_items' = production_items
           ELSE IF raises(outage = "execute", {"production_items"})
           THEN /\ Redirect("productions_remove",
                            [pid |-> pid, code |-> strip(inventory_id)],
                            "productions_view", error_flash({"production_items"}),
                            "closed")
                /\ production_items' = production_items
           ELSE /\ production_items' = delete_assignment(pid, strip(inventory_id))
                /\ Redirect("productions_remove",
                            [pid |-> pid, code |-> strip(inventory_id)],
                            "productions_view", "Item removed.", "closed"))

\* GET /reports/production/<int:pid>.pdf.
report_production_pdf(sess, outage, pid) ==
    login_required("report_production_pdf", PidArg(pid), sess, outage,
        /\ UNCHANGED <<config, uploads, qr_codes, report, inflight, database>>
        /\ IF ~get_db(outage # "view")
           THEN Crash("report_production_pdf", PidArg(pid), "none")
           ELSE IF raises(outage = "select", {"productions"})
           THEN Crash("report_production_pdf", PidArg(pid), "open")
           ELSE IF pid \notin DOMAIN productions
           THEN NotFound("report_production_pdf", PidArg(pid), "closed")
           ELSE IF raises(FALSE, {"production_items", "items"})
           THEN Crash("report_production_pdf", PidArg(pid), "open")
           ELSE Respond("report_production_pdf", PidArg(pid), 200, None, None,
                        "closed"))


\* No setup request is being handled at the same time as another.
NoInflight == <<>>

\* ------------------------------------------------------------ PDF reports
\* The coordinates are the code's, divided by mm: every y the code computes
\* is a whole number of mm, and none equals the bottom margin, so the
\* comparison y < 20*mm is the comparison of these numbers.
HelveticaBold14 == "Helvetica-Bold 14"

Helvetica10 == "Helvetica 10"

\* The canvas while it is drawn: `y` is where the next line goes, `page`
\* holds what is drawn on the current page, `pages` the pages shown so far.
Canvas(y, page, pages) == [y |-> y, page |-> page, pages |-> pages]

\* No report request: nothing fetched, nothing drawn.  `at` is where the
\* request stands: "none", "fetched", "loop" (before row `i`), "sent".
NoReport ==
    [view |-> "none", at |-> "none", rows |-> <<>>, notes |-> FALSE, i |-> 1,
     canvas |-> Canvas(A4Height, <<>>, <<>>)]

\* c.drawString(x, y, text) in the font set last.
drawString(kind, y, font, text) == [kind |-> kind, y |-> y, font |-> font, text |-> text]

\* `x or ''`
or_empty(x) == IF x = NULL THEN <<>> ELSE x

Bar == <<" ", "|", " ">>

\* f"{r[0]} | {r[1]} | {r[2] or ''} | SN:{r[3] or ''} | {r[4] or ''} {r[5] or ''}"
row_line(r) ==
    r[1] \o Bar \o r[2] \o Bar \o or_empty(r[3]) \o <<" ", "|", " ", "S", "N", ":">>
        \o or_empty(r[4]) \o Bar \o or_empty(r[5]) \o <<" ">> \o or_empty(r[6])

\* line[:n]
truncate(line, n) == SubSeq(line, 1, IF Len(line) < n THEN Len(line) ELSE n)

\* One turn of the loop over the rows: a new page if y is under the bottom
\* margin (c.showPage(); y = height - 20*mm; c.setFont("Helvetica", 10)),
\* then the line of the row, then y -= 6*mm.
draw_row(c, r) ==
    LET exhausted == c.y < BottomMargin
        y == IF exhausted THEN A4Height - TopMargin ELSE c.y
        page == IF exhausted THEN <<>> ELSE c.page
        pages == IF exhausted THEN Append(c.pages, c.page) ELSE c.pages
    IN Canvas(y - LineStep,
              Append(page, drawString("row", y, Helvetica10,
                                      truncate(row_line(r), LineMax))),
              pages)

\* c.showPage() after the loop: the pages of the document.
showPage(c) == Canvas(c.y, <<>>, Append(c.pages, c.page))

\* The canvas of report_items_pdf before the loop: the title.
report_items_head ==
    Canvas(A4Height - TopMargin - TitleStep,
           <<drawString("title", A4Height - TopMargin, HelveticaBold14, <<>>)>>,
           <<>>)

\* The canvas of report_production_pdf before the loop: the title, the
\* date, and the notes if the production has any.
report_production_head(notes) ==
    LET y0 == A4Height - TopMargin
        y1 == y0 - BomTitleStep
        y2 == y1 - BomDateStep
        head == <<drawString("title", y0, HelveticaBold14, <<>>),
                  drawString("date", y1, Helvetica10, <<>>)>>
    IN IF notes
       THEN Canvas(y2 - BomNotesStep,
                   Append(head, drawString("notes", y2, Helvetica10, <<>>)), <<>>)
       ELSE Canvas(y2, head, <<>>)

\* The report request goes on; the server's state stays.
report_step(route, arg) ==
    /\ resp' = [resp EXCEPT !.route = route, !.pid = arg.pid, !.status = 0]
    /\ UNCHANGED <<config, uploads, qr_codes, inflight, database>>

\* report_items_pdf from the fetched rows to the loop.
report_items_begin ==
    /\ report.view = "report_items_pdf" /\ report.at = "fetched"
    /\ report' = [report EXCEPT !.at = "loop", !.canvas = report_items_head]
    /\ report_step("report_items_pdf", NoArg)

\* report_production_pdf from the fetched rows to the loop.
report_production_begin ==
    /\ report.view = "report_production_pdf" /\ report.at = "fetched"
    /\ report' = [report EXCEPT !.at = "loop",
                                !.canvas = report_production_head(report.notes)]
    /\ report_step("report_production_pdf", PidArg(1))

\* `for r in rows:` one turn of the loop of either report.
report_row ==
    /\ report.at = "loop" /\ report.i <= Len(report.rows)
    /\ report' = [report EXCEPT !.i = report.i + 1,
                                !.canvas = draw_row(report.canvas,
                                                    report.rows[report.i])]
    /\ report_step(resp.route, [pid |-> resp.pid])

\* After the loop: c.showPage(), c.save(), send_file.
report_send ==
    /\ report.at = "loop" /\ report.i > Len(report.rows)
    /\ report' = [report EXCEPT !.at = "sent", !.canvas = showPage(report.canvas)]
    /\ resp' = [resp EXCEPT !.status = 200]
    /\ UNCHANGED <<config, uploads, qr_codes, inflight, database>>


\* ----------------------------------------------------------------- inputs
\* Where the database fails during a request: never, while load_user
\* queries, when the view connects, in a query of the view outside its try
\* block, in the statement inside it.
Outages == {"never", "load_user", "view", "select", "execute"}

\* Who sends a request: the session cookie (none, or the id of a user) and
\* the outage that meets the request.
Caller(sess, outage) == [sess |-> sess, outage |-> outage]

Anonymous == Caller(NoSession, "never")

\* Callers of the bootstrap: nobody, the admin (user 1), the default user
\* (user 2), the admin while the database is away.
GateCallers == {Anonymous, Caller(1, "never"), Caller(2, "never"),
                Caller(1, "load_user")}

\* Callers of the item and production views: nobody, the admin, the admin
\* whose statement fails.
CrudCallers == {Anonymous, Caller(1, "never"), Caller(1, "execute")}

NoFailure == [at |-> "none", created |-> Len(SchemaTables)]

\* The database call of setup that raises, and the number of CREATE TABLE
\* statements init_db completed before that.
Failures ==
    {NoFailure,
     [at |-> "test", created |-> 0],
     [at |-> "provision", created |-> Len(SchemaTables)]}
    \cup {[at |-> "init_db", created |-> k] : k \in 0..(Len(SchemaTables) - 1)}

Admin == <<"a", "d", "m">>

Staff == <<"s", "t", "f">>

Secret1 == <<"s", "e", "c", "r", "e", "t", "1">>

Secret2 == <<"s", "e", "c", "r", "e", "t", "2">>

\* The setup form with valid database parameters and the admin account.
SetupAdmin ==
    [db |-> "good", db_port |-> <<"3", "3", "0", "6", " ">>,
     admin_username |-> Admin, admin_password |-> Secret1,
     default_user_username |-> <<>>, default_user_password |-> <<>>,
     company_logo |-> NoFile]

SetupForms ==
    {SetupAdmin,
     [SetupAdmin EXCEPT !.default_user_username = Staff,
                        !.default_user_password = Secret2,
                        !.company_logo = ".png"],
     [SetupAdmin EXCEPT !.default_user_username = Admin,
                        !.default_user_password = Secret2],
     [SetupAdmin EXCEPT !.default_user_username = Staff],
     [SetupAdmin EXCEPT !.db = "bad", !.company_logo = ".png"],
     [SetupAdmin EXCEPT !.db_port = <<"3", "3", "0", "7">>],
     [SetupAdmin EXCEPT !.db_port = <<"x">>],
     [SetupAdmin EXCEPT !.admin_username = <<"a", "d">>],
     [SetupAdmin EXCEPT !.admin_password = <<"a", "b", "c">>],
     [SetupAdmin EXCEPT !.company_logo = ".gif"]}

\* A request to /setup: the method, the form, the failure that meets it.
SetupRequests ==
    {[method |-> "GET", form |-> SetupAdmin, fail |-> NoFailure]}
    \cup {[method |-> "POST", form |-> f, fail |-> NoFailure] : f \in SetupForms}
    \cup {[method |-> "POST", form |-> SetupAdmin, fail |-> x] : x \in Failures}

LoginRequests ==
    {[method |-> "GET", form |-> [username |-> <<>>, password |-> <<>>],
      outage |-> "never"],
     [method |-> "POST", form |-> [username |-> <<>>, password |-> Secret1],
      outage |-> "never"],
     [method |-> "POST", form |-> [username |-> <<" ">> \o Admin, password |-> Secret1],
      outage |-> "never"],
     [method |-> "POST", form |-> [username |-> Admin, password |-> Secret2],
      outage |-> "never"],
     [method |-> "POST", form |-> [username |-> Admin, password |-> Secret1],
      outage |-> "view"]}

CodeA == <<"A">>

CodeB == <<"B">>

\* The inventory_id field of the assign and remove forms: the codes, no
\* code, and a code with a space before it.
AssignInputs(codes) == codes \cup {<<>>, <<" ">>, <<" ">> \o CodeA}

\* Inventory codes in a URL.
Codes == {CodeA, CodeB}

\* Production ids in a URL.
Pids == 1..MaxPid

Tripod == [inventory_id |-> CodeA, name |-> <<"T">>, category |-> <<>>]

\* POSTed item forms: two items, a second form for the code of the first,
\* and forms the validators reject.
ItemForms ==
    {Tripod,
     [inventory_id |-> <<" ">> \o CodeB, name |-> <<"L", " ">>, category |-> <<"c">>],
     [inventory_id |-> CodeA \o <<" ">>, name |-> <<"L">>, category |-> <<" ", "c">>],
     [Tripod EXCEPT !.inventory_id = <<" ">>],
     [Tripod EXCEPT !.inventory_id = Filler(InventoryIdMax + 1)],
     [Tripod EXCEPT !.name = <<>>]}

ItemRequests ==
    {[method |-> "GET", form |-> Tripod]}
    \cup {[method |-> "POST", form |-> f] : f \in ItemForms}

Show == [name |-> <<"S", " ">>, date |-> <<>>]

Leap == <<"2", "0", "2", "4", "-", "0", "2", "-", "2", "9">>

\* POSTed production forms: a production, dates strptime rejects, a blank
\* name.
ProductionForms ==
    {Show,
     [Show EXCEPT !.date = <<"2", "0", "2", "3", "-", "0", "2", "-", "2", "9">>],
     [Show EXCEPT !.date = <<"2", "9", "/", "0", "2">>],
     [Show EXCEPT !.name = <<" ">>]}

ProductionRequests ==
    {[method |-> "GET", form |-> Show]}
    \cup {[method |-> "POST", form |-> f] : f \in ProductionForms}

\* Logo uploads of /admin/settings, by the extension of the file name.
LogoRequests ==
    {[method |-> "GET", file |-> NoFile], [method |-> "POST", file |-> NoFile],
     [method |-> "POST", file |-> ".png"], [method |-> "POST", file |-> ".gif"]}

UploadNames == {logo_file(".png"), "other.txt"}

RemoteAddrs ==
    {<<8, 8, 8, 8>>, <<192, 168, 1, 5>>, <<192, 169, 1, 5>>, <<10, 1, 2, 3>>,
     <<127, 0, 0, 1>>, <<127, 0, 0, 2>>, <<172, 15, 0, 1>>, <<172, 16, 0, 1>>,
     <<172, 31, 0, 1>>, <<172, 32, 0, 1>>, <<0, 0, 0, 0, 0, 0, 0, 1>>, <<>>}

ForwardedProtos ==
    {<<>>, <<"h", "t", "t", "p">>, <<"h", "t", "t", "p", "s">>,
     <<"H", "T", "T", "P", "S">>}

Request(is_secure, forwarded_proto, remote_addr) ==
    [is_secure |-> is_secure, forwarded_proto |-> forwarded_proto,
     remote_addr |-> remote_addr,
     scheme |-> IF is_secure THEN "https" ELSE "http",
     rest |-> "inventory.example/items"]

Requests ==
    {Request(s, f, a) : s \in BOOLEAN, f \in ForwardedProtos, a \in RemoteAddrs}

\* The two requests of the specification's HTTPS scenario.
PlainRequests == {Request(FALSE, <<>>, a) : a \in {<<8, 8, 8, 8>>, <<192, 168, 1, 5>>}}

\* ---------------------------------------------------------- specification
\* A fresh installation: no config.json, an empty uploads directory, an
\* empty database.
Init ==
    /\ config = Unconfigured
    /\ uploads = {}
    /\ qr_codes = NoRows
    /\ tables = {}
    /\ users = {}
    /\ items = NoRows
    /\ productions = NoRows
    /\ next_pid = 1
    /\ production_items = NoRows
    /\ resp = [route |-> "startup", pid |-> NoPid, code |-> NoCode, status |-> 0,
               location |-> None, flash |-> None, conn |-> "none", req |-> NoReq]
    /\ report = NoReport
    /\ inflight = NoInflight

\* The views of the bootstrap and of the login gate.
Bootstrap(setups, callers) ==
    \/ \E r \in setups : setup(r.method, r.form, r.fail)
    \/ \E k \in 0..Len(SchemaTables) : startup(k)
    \/ \E r \in PlainRequests : before_request(r)
    \/ \E r \in LoginRequests : login(r.method, r.form, r.outage)
    \/ \E c \in callers : logout(c.sess, c.outage)
    \/ \E c \in callers : index(c.sess, c.outage)
    \/ \E n \in UploadNames : uploads_view(n)
    \/ \E c \in callers, r \in LogoRequests :
           admin_settings(c.sess, c.outage, r.method, r.file)

\* The views of items, productions and assignments.
Crud(callers, codes, itemRequests, productionRequests) ==
    \/ \E c \in callers : items_view(c.sess, c.outage)
    \/ \E c \in callers, r \in itemRequests :
           items_new(c.sess, c.outage, r.method, r.form)
    \/ \E c \in callers, i \in codes, r \in itemRequests :
           items_edit(c.sess, c.outage, i, r.method, r.form)
    \/ \E c \in callers, i \in codes : items_delete(c.sess, c.outage, i)
    \/ \E c \in callers, i \in codes : label_png(c.sess, c.outage, i)
    \/ \E c \in callers : report_items_pdf(c.sess, c.outage)
    \/ \E c \in callers : productions_view_all(c.sess, c.outage)
    \/ \E c \in callers, r \in productionRequests :
           productions_new(c.sess, c.outage, r.method, r.form)
    \/ \E c \in callers, p \in Pids, r \in productionRequests :
           productions_edit(c.sess, c.outage, p, r.method, r.form)
    \/ \E c \in callers, p \in Pids : productions_delete(c.sess, c.outage, p)
    \/ \E c \in callers, p \in Pids : productions_view(c.sess, c.outage, p)
    \/ \E c \in callers, p \in Pids, i \in AssignInputs(codes) :
           productions_assign(c.sess, c.outage, p, i)
    \/ \E c \in callers, p \in Pids, i \in AssignInputs(codes) :
           productions_remove(c.sess, c.outage, p, i)
    \/ \E c \in callers, p \in Pids : report_production_pdf(c.sess, c.outage, p)

\* The bootstrap in full, with every other view on one item form and one
\* production form.
Next ==
    \/ Bootstrap(SetupRequests, GateCallers)
    \/ Crud(GateCallers, {CodeA}, {[method |-> "POST", form |-> Tripod]},
            {[method |-> "POST", form |-> f] : f \in {Show, [Show EXCEPT !.date = Leap]}})

Spec == Init /\ [][Next]_vars

\* The item, production and assignment views in full, on an instance that
\* the setup form configures.
NextCrud ==
    \/ setup("POST", SetupAdmin, NoFailure)
    \/ Crud(CrudCallers, Codes, ItemRequests, ProductionRequests)

SpecCrud == Init /\ [][NextCrud]_vars

\* The bootstrap and the before_request hook on every kind of request.
NextHttps ==
    \/ \E r \in SetupRequests : setup(r.method, r.form, r.fail)
    \/ \E r \in Requests : before_request(r)

SpecHttps == Init /\ [][NextHttps]_vars

DigitChars == <<"0", "1", "2", "3", "4", "5", "6", "7", "8", "9">>

\* The inventory code of the k-th row of a report: k in two digits.
RowCode(k) == <<DigitChars[(k \div 10) + 1], DigitChars[(k % 10) + 1]>>

NameWidths == <<NameShort, NameFit, NameOver>>

\* The name of the k-th row of a report: k in two digits, so that the rows
\* are in the order of their names, and the three lengths in turn.
RowName(k) == RowCode(k) \o Filler(NameWidths[(k % Len(NameWidths)) + 1])

\* The k-th fetched row: inventory_id, name, category, serial_number,
\* manufacturer, model.
FetchedRow(k) == <<RowCode(k), RowName(k), NULL, NULL, NULL, NULL>>

\* A configured instance with n items, all of them assigned to production
\* 1, in the middle of a report request: the rows are fetched (in the order
\* of the result set) and the connection is closed.
InitReport ==
    /\ config = [configured |-> TRUE, db |-> "good",
                 db_port |-> strip(SetupAdmin.db_port), logo_path |-> None]
    /\ uploads = {}
    /\ qr_codes = NoRows
    /\ tables = AllTables
    /\ users = provision({}, SetupAdmin)
    /\ productions = (1 :> production_row(Show))
    /\ next_pid = 2
    /\ resp = [route |-> "login", pid |-> NoPid, code |-> NoCode, status |-> 302,
               location |-> "index", flash |-> None, conn |-> "closed", req |-> NoReq]
    /\ inflight = NoInflight
    /\ \E n \in 0..MaxRows :
          /\ items = [c \in {RowCode(k) : k \in 1..n} |->
                         [name |-> RowName(CHOOSE k \in 1..n : RowCode(k) = c),
                          category |-> NULL]]
          /\ production_items = [r \in {<<1, RowCode(k)>> : k \in 1..n} |-> 1]
          /\ \E v \in {"report_items_pdf", "report_production_pdf"},
                notes \in BOOLEAN :
                /\ v = "report_items_pdf" => ~notes
                /\ report = [NoReport EXCEPT
                                !.view = v, !.at = "fetched", !.notes = notes,
                                !.rows = [k \in 1..n |-> FetchedRow(k)]]

\* The drawing of the two reports, turn by turn.
NextReport ==
    \/ report_items_begin
    \/ report_production_begin
    \/ report_row
    \/ report_send

SpecReport == InitReport /\ [][NextReport]_vars

\* Callers of the views while the database fails: the admin, and the admin
\* whose request meets each outage.
ErrorCallers == {Caller(1, o) : o \in Outages}

\* The setup form, with each failure of the database after the form is
\* valid, and every view on one item form and one production form while the
\* database fails.
NextErrors ==
    \/ \E f \in Failures : setup("POST", SetupAdmin, f)
    \/ Crud(ErrorCallers, {CodeA}, {[method |-> "POST", form |-> Tripod]},
            {[method |-> "POST", form |-> Show]})

SpecErrors == Init /\ [][NextErrors]_vars

\* ------------------------------------------- two setup requests at a time
\* setup() handled by two requests whose statements interleave.  Each request
\* is at a position of setup(): "received" (before line 207), "save_config"
\* (248), "init_db" (249), "select_admin" (253), "insert_admin" (255),
\* "select_user" (259), "insert_user" (261), "commit" (263), "done".  The
\* rows a request has inserted and not committed are its own (`pending`):
\* a SELECT of another request does not see them.

\* The submissions that race: the bare administrator, an administrator with
\* a default user and a logo, an administrator of another name.
RaceForms ==
    {SetupAdmin,
     [SetupAdmin EXCEPT !.default_user_username = Staff,
                        !.default_user_password = Secret2,
                        !.company_logo = ".png"],
     [SetupAdmin EXCEPT !.admin_username = Staff]}

\* The two requests.
SetupRequestIds == {1, 2}

Received(form) ==
    [pc |-> "received", form |-> form, logo_path |-> None,
     pending |-> {}, status |-> 0]

\* new_cfg of setup(), lines 227-235.
setup_new_cfg(form, logo_path) ==
    [configured |-> TRUE, db |-> form.db,
     db_port |-> strip(form.db_port), logo_path |-> logo_path]

\* AUTO_INCREMENT of users.id: past every id handed out and still held.
next_user_id ==
    LET held == {u.id : u \in users}
                \cup UNION {{u.id : u \in inflight[q].pending} : q \in DOMAIN inflight}
    IN  IF held = {} THEN 1
        ELSE (CHOOSE m \in held : \A k \in held : k <= m) + 1

\* `SELECT id FROM users WHERE username=%s` in the transaction of request q:
\* the committed rows and its own.
setup_fetchone(q, username) ==
    \E u \in users \cup inflight[q].pending : u.username = username

\* Another transaction holds an uncommitted row of this username: the INSERT
\* waits for it on the UNIQUE key.
setup_insert_waits(q, username) ==
    \E o \in DOMAIN inflight \ {q} :
        \E u \in inflight[o].pending : u.username = username

At(q, pc) == q \in DOMAIN inflight /\ inflight[q].pc = pc

Goto(q, pc) == inflight' = [inflight EXCEPT ![q].pc = pc]

\* Lines 207-246: the `configured` check, the form, the logo, the
\* connection test.
setup_enter(q) ==
    /\ At(q, "received")
    /\ LET form == inflight[q].form
           saved == form.company_logo # NoFile /\ form.company_logo \in LogoExtensions
           logo_path == IF saved THEN logo_file(form.company_logo) ELSE None
       IN  IF load_config.configured
           THEN /\ Redirect("setup", NoArg, "index", None, "none")
                /\ inflight' = [inflight EXCEPT ![q].pc = "done", ![q].status = 302]
                /\ UNCHANGED uploads
           ELSE /\ SetupForm_validate("POST", form)
                /\ connect(form.db, int(form.db_port), TRUE)
                /\ uploads' = IF saved THEN uploads \cup {logo_path} ELSE uploads
                /\ inflight' = [inflight EXCEPT ![q].pc = "save_config",
                                                ![q].logo_path = logo_path]
                /\ UNCHANGED resp
    /\ UNCHANGED <<config, qr_codes, report, database>>

\* Line 248.
setup_save_config(q) ==
    /\ At(q, "save_config")
    /\ save_config(setup_new_cfg(inflight[q].form, inflight[q].logo_path))
    /\ Goto(q, "init_db")
    /\ UNCHANGED <<uploads, qr_codes, report, database, resp>>

\* Line 249: CREATE TABLE IF NOT EXISTS, four times.
setup_init_db(q) ==
    /\ At(q, "init_db")
    /\ init_db(Len(SchemaTables))
    /\ Goto(q, "select_admin")
    /\ UNCHANGED <<config, uploads, qr_codes, report, users, items, productions,
                   next_pid, production_items, resp>>

\* Lines 253-254 and 259-260: the SELECT that decides on the INSERT.
setup_select(q, pc, username, insert, skip) ==
    /\ At(q, pc)
    /\ Goto(q, IF setup_fetchone(q, username) THEN skip ELSE insert)
    /\ UNCHANGED <<config, uploads, qr_codes, report, database, resp>>

\* Lines 255-256 and 261-262: the INSERT; a committed row of the same
\* username raises mariadb.IntegrityError, which nothing in setup() catches.
setup_insert(q, pc, username, password, is_admin, next) ==
    /\ At(q, pc)
    /\ ~setup_insert_waits(q, username)
    /\ IF \E u \in users : u.username = username
       THEN /\ inflight' = [inflight EXCEPT ![q].pc = "done", ![q].status = 500,
                                            ![q].pending = {}]
            /\ Crash("setup", NoArg, "open")
       ELSE /\ inflight' = [inflight EXCEPT
                   ![q].pc = next,
                   ![q].pending = @ \cup {[id |-> next_user_id,
                                           username |-> username,
                                           password_hash |-> generate_password_hash(password),
                                           is_admin |-> is_admin]}]
            /\ UNCHANGED resp
    /\ UNCHANGED <<config, uploads, qr_codes, report, database>>

setup_select_admin(q) ==
    /\ q \in DOMAIN inflight
    /\ setup_select(q, "select_admin", inflight[q].form.admin_username,
                    "insert_admin", "select_user")

setup_insert_admin(q) ==
    /\ q \in DOMAIN inflight
    /\ setup_insert(q, "insert_admin", inflight[q].form.admin_username,
                    inflight[q].form.admin_password, TRUE, "select_user")

\* Line 258: no default user asked for.
setup_no_default_user(q) ==
    /\ At(q, "select_user")
    /\ ~ (/\ inflight[q].form.default_user_username # <<>>
          /\ inflight[q].form.default_user_password # <<>>)
    /\ Goto(q, "commit")
    /\ UNCHANGED <<config, uploads, qr_codes, report, database, resp>>

setup_select_user(q) ==
    /\ q \in DOMAIN inflight
    /\ inflight[q].form.default_user_username # <<>>
    /\ inflight[q].form.default_user_password # <<>>
    /\ setup_select(q, "select_user", inflight[q].form.default_user_username,
                    "insert_user", "commit")

setup_insert_user(q) ==
    /\ q \in DOMAIN inflight
    /\ setup_insert(q, "insert_user", inflight[q].form.default_user_username,
                    inflight[q].form.default_user_password, FALSE, "commit")

\* Lines 263-267.
setup_commit(q) ==
    /\ At(q, "commit")
    /\ users' = users \cup inflight[q].pending
    /\ inflight' = [inflight EXCEPT ![q].pc = "done", ![q].status = 302,
                                    ![q].pending = {}]
    /\ Redirect("setup", NoArg, "login", "Setup complete. Please log in.", "closed")
    /\ UNCHANGED <<config, uploads, qr_codes, report, tables, items, productions,
                   next_pid, production_items>>

\* An unconfigured instance, a fresh database, two valid submissions received.
InitRace ==
    /\ config = Unconfigured
    /\ uploads = {}
    /\ qr_codes = NoRows
    /\ report = NoReport
    /\ tables = {}
    /\ users = {}
    /\ items = NoRows
    /\ productions = NoRows
    /\ next_pid = 1
    /\ production_items = NoRows
    /\ resp = [route |-> "startup", pid |-> NoPid, code |-> NoCode, status |-> 0,
               location |-> None, flash |-> None, conn |-> "none", req |-> NoReq]
    /\ inflight \in [SetupRequestIds -> {Received(f) : f \in RaceForms}]

NextRace ==
    \E q \in SetupRequestIds :
        \/ setup_enter(q)
        \/ setup_save_config(q)
        \/ setup_init_db(q)
        \/ setup_select_admin(q)
        \/ setup_insert_admin(q)
        \/ setup_no_default_user(q)
        \/ setup_select_user(q)
        \/ setup_insert_user(q)
        \/ setup_commit(q)

SpecRace == InitRace /\ [][NextRace]_vars


\* ----------------------------------------------------------------- claims
\* The connection test of a setup request fails: the credentials are wrong,
\* the port is not the server's, or the server is away.
ConnectionTestFails(r) ==
    /\ SetupForm_validate(r.method, r.form)
    /\ r.form.company_logo \in LogoExtensions \cup {NoFile}
    /\ ~ValueError(r.form.db_port)
    /\ ~connect(r.form.db, int(r.form.db_port), r.fail.at # "test")

\* C1: a setup submission on an unconfigured instance whose connection test
\* fails leaves config.json unwritten (not configured), creates no table and
\* no user, and redisplays the setup form with the connection error.
C1_FailedConnectionStaysUnconfigured ==
    [][\A r \in SetupRequests :
          (/\ ~config.configured
           /\ resp'.route = "setup"
           /\ ConnectionTestFails(r)
           /\ setup(r.method, r.form, r.fail))
          => /\ config' = Unconfigured
             /\ tables' = {} /\ users' = {}
             /\ UNCHANGED database
             /\ resp'.route = "setup" /\ resp'.status = 200
             /\ resp'.flash = "Database connection failed"]_vars

\* C1 witness: the setup form redisplayed with the connection error on an
\* instance that is still unconfigured.
C1_Witness ==
    /\ resp.route = "setup" /\ resp.flash = "Database connection failed"
    /\ ~config.configured /\ tables = {} /\ users = {}

\* C2: whenever config.json says configured, the four tables exist and the
\* admin account has been provisioned.
C2_ConfiguredImpliesSchemaAndAdmin ==
    config.configured => (tables = AllTables /\ \E u \in users : u.is_admin)

\* C3: on a configured instance every request to /setup only redirects to
\* the index (config.json, the uploads and the database stay as they are),
\* the index sends a caller without a session on to the login page, and the
\* login page is served there.
C3_SetupUnreachableOnceConfigured ==
    [][/\ \A r \in SetupRequests :
             (/\ config.configured /\ resp'.route = "setup"
              /\ setup(r.method, r.form, r.fail))
             => /\ UNCHANGED <<config, uploads, qr_codes, report, inflight, database>>
                /\ resp'.status = 302 /\ resp'.location = "index"
       /\ (/\ config.configured /\ resp'.route = "index"
           /\ index(NoSession, "never"))
             => /\ UNCHANGED <<config, uploads, qr_codes, report, inflight, database>>
                /\ resp'.status = 302 /\ resp'.location = "login"
       /\ \A r \in LoginRequests :
             (/\ config.configured /\ resp'.route = "login" /\ r.method = "GET"
              /\ login(r.method, r.form, r.outage))
             => resp'.status = 200]_vars

\* C3 witness: a configured instance with its admin has answered a request
\* to /setup with the redirect.
C3_Witness ==
    /\ config.configured /\ \E u \in users : u.is_admin
    /\ resp.route = "setup" /\ resp.status = 302 /\ resp.location = "index"

\* The views other than setup.
OtherRoutes ==
    {"login", "logout", "index", "uploads", "admin_settings", "items", "items_new",
     "items_edit", "items_delete", "label_png", "report_items_pdf", "productions",
     "productions_new", "productions_edit", "productions_delete",
     "productions_view", "productions_assign", "productions_remove",
     "report_production_pdf"}

\* C4: on an unconfigured instance every request to a view other than setup
\* is answered by a redirect to the setup form, or to the login page (which
\* redirects to the setup form), without a database connection and without
\* a change of the database.
C4_UnconfiguredRedirectsToSetup ==
    [][(~config.configured /\ resp'.route \in OtherRoutes)
          => /\ resp'.status = 302
             /\ resp'.location \in {"setup", "login"}
             /\ resp'.conn = "none"
             /\ UNCHANGED database]_vars


\* The request is secure: a secure transport, or the header X-Forwarded-Proto
\* with the value https (in either case of the letters).
SecureRequest(r) ==
    \/ r.is_secure
    \/ r.forwarded_proto \in {<<"h", "t", "t", "p", "s">>, <<"H", "T", "T", "P", "S">>}

\* The loopback ranges 127.0.0.0/8 and ::1 and the private ranges 10.0.0.0/8,
\* 172.16.0.0/12 and 192.168.0.0/16.
PrivateOrLoopback(addr) ==
    \/ Len(addr) = 4 /\ addr[1] = 127
    \/ addr = <<0, 0, 0, 0, 0, 0, 0, 1>>
    \/ Len(addr) = 4 /\ addr[1] = 10
    \/ Len(addr) = 4 /\ addr[1] = 172 /\ addr[2] \in 16..31
    \/ Len(addr) = 4 /\ addr[1] = 192 /\ addr[2] = 168

\* C5: on a configured instance a request is redirected, to the https URL
\* of the same address, if and only if it is not secure and its remote
\* address is outside the private and loopback ranges.
C5_HttpsRedirectIffInsecureAndPublic ==
    [][\A r \in Requests :
          (config.configured /\ before_request(r))
          => /\ (resp'.status = 301)
                   <=> (~SecureRequest(r) /\ ~PrivateOrLoopback(r.remote_addr))
             /\ resp'.status = 301 => resp'.location = "https://" \o r.rest]_vars


\* C6: every row of production_items has its production in productions and
\* its item in items, whatever was created, edited, deleted, assigned or
\* removed before.
C6_AssignmentsReferenceExistingRows ==
    \A r \in DOMAIN production_items :
        r[1] \in DOMAIN productions /\ r[2] \in DOMAIN items

\* C6 witness: an assign that named an unknown item or an unknown production
\* has been answered, and the table holds rows.
C6_Witness ==
    /\ resp.route = "productions_assign" /\ resp.flash = "Item assigned."
    /\ resp.code \notin DOMAIN items \/ resp.pid \notin DOMAIN productions
    /\ production_items # NoRows

\* C7: a successful delete of an item removes the assignment rows of that
\* item and no other row, and leaves the productions; a successful delete
\* of a production removes the assignment rows of that production and no
\* other row, and leaves the items.
C7_DeleteCascades ==
    [][/\ \A c \in CrudCallers, i \in Codes :
             (/\ resp'.route = "items_delete" /\ resp'.flash = "Item deleted."
              /\ items_delete(c.sess, c.outage, i))
             => /\ i \notin DOMAIN items'
                /\ \A j \in DOMAIN items \ {i} : j \in DOMAIN items' /\ items'[j] = items[j]
                /\ DOMAIN production_items'
                       = {r \in DOMAIN production_items : r[2] # i}
                /\ \A r \in DOMAIN production_items' :
                       production_items'[r] = production_items[r]
                /\ productions' = productions
       /\ \A c \in CrudCallers, p \in Pids :
             (/\ resp'.route = "productions_delete"
              /\ resp'.flash = "Production deleted."
              /\ productions_delete(c.sess, c.outage, p))
             => /\ p \notin DOMAIN productions'
                /\ DOMAIN production_items'
                       = {r \in DOMAIN production_items : r[1] # p}
                /\ \A r \in DOMAIN production_items' :
                       production_items'[r] = production_items[r]
                /\ items' = items]_vars

\* C7 witness: a production has been deleted while items exist and rows of
\* another production remain.
C7_Witness ==
    /\ resp.route = "productions_delete" /\ resp.flash = "Production deleted."
    /\ resp.pid \notin DOMAIN productions
    /\ DOMAIN items = Codes
    /\ production_items # NoRows

\* C8: assigning an item to a production it is already assigned to leaves
\* production_items as it is, and no pair ever has more than one row.
C8_AssignIdempotent ==
    [][/\ \A c \in CrudCallers, p \in Pids, i \in AssignInputs(Codes) :
             (/\ resp'.route = "productions_assign"
              /\ <<p, strip(i)>> \in DOMAIN production_items
              /\ productions_assign(c.sess, c.outage, p, i))
             => production_items' = production_items
       /\ \A r \in DOMAIN production_items' : production_items'[r] = 1]_vars

\* C8 witness: an assign has been answered and its pair is a row.
C8_Witness ==
    /\ resp.route = "productions_assign" /\ resp.flash = "Item assigned."
    /\ <<resp.pid, resp.code>> \in DOMAIN production_items
    /\ production_items[<<resp.pid, resp.code>>] = 1

\* C9: a valid item form whose inventory code (stripped) is already a row is
\* answered with the form and an error message, the duplicate-key error when
\* the INSERT reaches the server, and the database stays as it is.
C9_DuplicateCodeRejected ==
    [][\A c \in CrudCallers, r \in ItemRequests :
          (/\ resp'.route = "items_new"
           /\ current_user(c.sess, c.outage) \in {"admin", "user"}
           /\ ItemForm_validate(r.method, r.form)
           /\ strip(r.form.inventory_id) \in DOMAIN items
           /\ items_new(c.sess, c.outage, r.method, r.form))
          => /\ UNCHANGED database
             /\ resp'.status = 200
             /\ resp'.flash \in {ErrorDuplicate, ErrorLost}
             /\ c.outage = "never" => resp'.flash = ErrorDuplicate]_vars

\* C9 witness: the duplicate-key error has been shown for a code whose row
\* is the one created first.
C9_Witness ==
    /\ resp.route = "items_new" /\ resp.flash = ErrorDuplicate
    /\ resp.code \in DOMAIN items
    /\ items[resp.code] = item_row(Tripod)

\* The not-found answer that changes nothing.
NotFoundAnswer == resp'.status = 404 /\ UNCHANGED database

\* C10: every view that addresses an item by its code or a production by
\* its id answers 404 and changes nothing when that item or production does
\* not exist (the caller is logged in, the database is there).
C10_MissingTargetIsNotFound ==
    [][current_user(1, "never") = "admin" =>
       /\ \A i \in Codes, r \in ItemRequests :
             (/\ i \notin DOMAIN items
              /\ \/ items_edit(1, "never", i, r.method, r.form)
                 \/ items_delete(1, "never", i)
                 \/ label_png(1, "never", i))
             => NotFoundAnswer
       /\ \A p \in Pids, r \in ProductionRequests, i \in Codes :
             (/\ p \notin DOMAIN productions
              /\ \/ productions_view(1, "never", p)
                 \/ productions_edit(1, "never", p, r.method, r.form)
                 \/ productions_delete(1, "never", p)
                 \/ productions_assign(1, "never", p, i)
                 \/ productions_remove(1, "never", p, i)
                 \/ report_production_pdf(1, "never", p))
             => NotFoundAnswer
       /\ \A p \in Pids, i \in Codes :
             (/\ i \notin DOMAIN items
              /\ \/ productions_assign(1, "never", p, i)
                 \/ productions_remove(1, "never", p, i))
             => NotFoundAnswer]_vars


\* C11: no request leaves the database connection it opened open: after
\* every request the connection of that request is closed, or none was
\* opened.
C11_ConnectionClosedAfterRequest == resp.conn # "open"


\* The outages that meet a mutating view in its own database calls: the
\* connection fails, or the statement does.
ViewOutages == {"view", "execute"}

\* The answer of a request that caught its persistence error: no crash, and
\* the rows as they were.
ErrorCaught ==
    /\ resp'.status # 500
    /\ UNCHANGED <<users, items, productions, next_pid, production_items>>

\* C12: in setup's account provisioning and in each of item create, edit,
\* delete, production create, edit, delete, assign and remove, a request
\* of the logged-in admin that meets a persistence error (the connection
\* fails or the statement fails) ends with a normal response, not a crash,
\* and leaves the stored rows as they were.
C12_PersistenceErrorsCaught ==
    [][/\ (/\ resp'.route = "setup"
           /\ setup("POST", SetupAdmin, [at |-> "provision",
                                         created |-> Len(SchemaTables)]))
          => ErrorCaught
       /\ \A o \in ViewOutages :
             (/\ current_user(1, o) = "admin"
              /\ resp'.route \in {"items_new", "items_edit", "items_delete",
                                  "productions_new", "productions_edit",
                                  "productions_delete", "productions_assign",
                                  "productions_remove"}
              /\ \/ items_new(1, o, "POST", Tripod)
                 \/ items_edit(1, o, CodeA, "POST", Tripod)
                 \/ items_delete(1, o, CodeA)
                 \/ productions_new(1, o, "POST", Show)
                 \/ \E p \in Pids :
                       \/ productions_edit(1, o, p, "POST", Show)
                       \/ productions_delete(1, o, p)
                       \/ productions_assign(1, o, p, CodeA)
                       \/ productions_remove(1, o, p, CodeA))
             => ErrorCaught]_vars


\* C13: an edit of an existing item with valid fields, by a logged-in
\* caller and with the database there, commits the update, leaves the label
\* file of that item with the payload of the just-saved fields, and ends
\* with the redirect to the item list and the success message.
C13_EditRegeneratesLabel ==
    [][\A c \in CrudCallers, i \in Codes, r \in ItemRequests :
          (/\ resp'.route = "items_edit"
           /\ c.outage = "never"
           /\ current_user(c.sess, c.outage) \in {"admin", "user"}
           /\ i \in DOMAIN items
           /\ ItemForm_validate(r.method, r.form)
           /\ items_edit(c.sess, c.outage, i, r.method, r.form))
          => /\ items' = update_item(i, item_row(r.form))
             /\ i \in DOMAIN qr_codes'
             /\ qr_codes'[i] = qr_data_text(i, r.form)
             /\ resp'.status = 302 /\ resp'.location = "items"
             /\ resp'.flash = "Item updated and QR code regenerated."]_vars


\* What is drawn on the pages, page after page.
RECURSIVE Drawn(_)
Drawn(pages) == IF pages = <<>> THEN <<>> ELSE Head(pages) \o Drawn(Tail(pages))

IsRowLine(op) == op.kind = "row"

\* Every fetched row is one line, in the order of the result set, and the
\* line is the first LineMax characters of the row's text.
RowsDrawnOnceInOrder ==
    LET lines == SelectSeq(Drawn(report.canvas.pages), IsRowLine)
    IN /\ Len(lines) = Len(report.rows)
       /\ \A k \in 1..Len(lines) :
             LET text == lines[k].text
                 full == row_line(report.rows[k])
             IN /\ Len(text) <= LineMax
                /\ Len(text) = Len(full) \/ Len(text) = LineMax
                /\ \A j \in 1..Len(text) : text[j] = full[j]

\* Nothing is drawn under the bottom margin.
NoLineBelowMargin ==
    \A p \in 1..Len(report.canvas.pages) :
        \A k \in 1..Len(report.canvas.pages[p]) :
            report.canvas.pages[p][k].y >= BottomMargin

\* A page is followed by another only when it has no room for one more
\* line.
PageBreakOnlyWhenExhausted ==
    \A p \in 1..(Len(report.canvas.pages) - 1) :
        LET page == report.canvas.pages[p]
        IN page # <<>> /\ page[Len(page)].y - LineStep < BottomMargin

\* Every page after the first begins with a header, in the lighter font,
\* before its rows.
PagesBeginWithHeader ==
    \A p \in 2..Len(report.canvas.pages) :
        LET page == report.canvas.pages[p]
        IN page # <<>> /\ page[1].kind # "row" /\ page[1].font = Helvetica10

\* C14: in both reports every fetched row is exactly one line, in the order
\* of the result set and of at most 120 characters; no line is under the
\* bottom margin; a new page starts exactly when the page is exhausted, and
\* each new page begins with a repeated lighter header before its rows.
C14_ReportPagination ==
    report.at = "sent" =>
        /\ RowsDrawnOnceInOrder
        /\ NoLineBelowMargin
        /\ PageBreakOnlyWhenExhausted
        /\ PagesBeginWithHeader


\* What the accounts are, whatever ids they were given.
Accounts(rows) ==
    {[username |-> u.username, password_hash |-> u.password_hash,
      is_admin |-> u.is_admin] : u \in rows}

BothDone == \A q \in DOMAIN inflight : inflight[q].pc = "done"

FromOneSubmission ==
    \E q \in DOMAIN inflight :
        LET form == inflight[q].form
            saved == form.company_logo # NoFile /\ form.company_logo \in LogoExtensions
        IN  /\ config = setup_new_cfg(form, IF saved THEN logo_file(form.company_logo)
                                                     ELSE None)
            /\ Accounts(users) = Accounts(provision({}, form))

OneAdminRow == Cardinality({u \in users : u.is_admin}) = 1

NoUnhandledError == \A q \in DOMAIN inflight : inflight[q].status # 500

\* C15: whenever two valid setup submissions handled at the same time on an
\* unconfigured instance with a fresh database have both ended, the state is
\* that of handling them one after the other: the configuration and the
\* accounts are those of one and the same submission, the users table has
\* exactly one administrator, and neither request ended in an unhandled error.
C15_ConcurrentSetupSerializable ==
    (inflight # NoInflight /\ BothDone)
        => (FromOneSubmission /\ OneAdminRow /\ NoUnhandledError)

========================================================================
